---------------------------- MODULE Spec2Model ----------------------------
(***************************************************************************)
(* Model of src/app.py, the SmartShop Review Summarizer: a Streamlit       *)
(* script that fetches the reviews of a product page (fetch_reviews),      *)
(* splits long text into word-bounded chunks (chunk_text) and summarizes   *)
(* each chunk with a cached Hugging Face pipeline (summarize_text).        *)
(*                                                                         *)
(* A Python str is modelled as the sequence of its code points, so that    *)
(* str.split, str.strip and str.join are computed and not assumed.         *)
(***************************************************************************)
EXTENDS Integers, Sequences, FiniteSets, TLC

VARIABLES
    cache,            \* st.cache_resource's store for load_summarizer: <<>> or <<instance>>
    instances,        \* history: every pipeline instance ever constructed, in order
    summarizer,       \* the module global `summarizer` (0: not bound in this run)
    runs,             \* number of script runs started in this process
    pc,               \* position of the running script / call
    product_url,      \* value of the text_input widget
    clicked,          \* value of st.button in this run
    response,         \* what requests.get produced for this run
    reviews_text,     \* main's local reviews_text
    ui,               \* what the run has rendered: sequence of [kind, body]
    text,             \* summarize_text's parameter
    chunks,           \* summarize_text's local chunks
    idx,              \* 1-based position of the for loop in chunks
    summaries,        \* summarize_text's local summaries
    calls,            \* history: the summarizer calls issued by this request, in order
    outcomes,         \* history: how each finished summarizer call ended, in order
    overall_summary,  \* summarize_text's return value
    ct_text,          \* chunk_text's parameter text (direct call)
    ct_max_words,     \* chunk_text's parameter max_words (direct call)
    ct_result         \* what the direct chunk_text call produced

vars == <<cache, instances, summarizer, runs, pc, product_url, clicked, response,
          reviews_text, ui, text, chunks, idx, summaries, calls, outcomes,
          overall_summary, ct_text, ct_max_words, ct_result>>

-----------------------------------------------------------------------------
(* Bounds of the model *)

\* longest exhaustively enumerated text, in characters
MaxLen == 5
\* |max_words| of the direct chunk_text calls ranges over -MaxM..MaxM
MaxM == 3
\* word counts of the generated texts handed to chunk_text directly
MaxWords == 7
\* script runs per process
MaxRuns == 3

-----------------------------------------------------------------------------
(* Python str primitives *)

\* " ", "\n", "\t": characters str.split() and str.strip() treat as whitespace
Whitespace == {32, 10, 9}

\* the separator " " of " ".join(...)
SP == <<32>>

Min(a, b) == IF a < b THEN a ELSE b
Max(a, b) == IF a > b THEN a ELSE b

\* text.split(): the maximal runs of non-whitespace characters, in order.
\* Computed by halving: the words of s[lo..hi] are those of the two halves,
\* the word that straddles the middle being glued back together.
RECURSIVE SplitRange(_, _, _)
SplitRange(s, lo, hi) ==
    IF lo > hi THEN <<>>
    ELSE IF lo = hi THEN (IF s[lo] \in Whitespace THEN <<>> ELSE << <<s[lo]>> >>)
    ELSE LET mid == (lo + hi) \div 2
             L == SplitRange(s, lo, mid)
             R == SplitRange(s, mid + 1, hi)
         IN  IF s[mid] \notin Whitespace /\ s[mid + 1] \notin Whitespace
             THEN SubSeq(L, 1, Len(L) - 1) \o <<L[Len(L)] \o R[1]>> \o Tail(R)
             ELSE L \o R

Split(s) == SplitRange(s, 1, Len(s))

\* text.strip(): leading and trailing whitespace removed
Strip(s) ==
    LET keep == {i \in 1..Len(s) : s[i] \notin Whitespace}
    IN  IF keep = {} THEN <<>>
        ELSE LET lo == CHOOSE i \in keep : \A j \in keep : i <= j
                 hi == CHOOSE i \in keep : \A j \in keep : j <= i
             IN  SubSeq(s, lo, hi)

\* sep.join(items), computed by halving
RECURSIVE JoinRange(_, _, _, _)
JoinRange(sep, items, lo, hi) ==
    IF lo > hi THEN <<>>
    ELSE IF lo = hi THEN items[lo]
    ELSE LET mid == (lo + hi) \div 2
         IN  JoinRange(sep, items, lo, mid) \o sep \o JoinRange(sep, items, mid + 1, hi)

Join(sep, items) == JoinRange(sep, items, 1, Len(items))

\* s[lo:hi] for a list, with Python's clamping of both indices
Slice(s, lo, hi) ==
    LET n == Len(s)
        l == IF lo < 0 THEN Max(lo + n, 0) ELSE Min(lo, n)
        h == IF hi < 0 THEN Max(hi + n, 0) ELSE Min(hi, n)
    IN  SubSeq(s, l + 1, h)

\* range(start, stop, step) for step # 0, as the sequence of its values
Range(start, stop, step) ==
    LET n == IF step > 0
             THEN (IF stop > start THEN (stop - start + step - 1) \div step ELSE 0)
             ELSE (IF start > stop THEN (start - stop - step - 1) \div (-step) ELSE 0)
    IN  [k \in 1..n |-> start + (k - 1) * step]

-----------------------------------------------------------------------------
(* chunk_text, src/app.py lines 37-46 *)

\* "range() arg 3 must not be zero", the ValueError of range(_, _, 0)
RangeZeroStep ==
    <<114, 97, 110, 103, 101, 40, 41, 32, 97, 114, 103, 32, 51, 32, 109,
      117, 115, 116, 32, 110, 111, 116, 32, 98, 101, 32, 122, 101, 114,
      111>>

\* A call's outcome: it raised an exception whose str() is exc, or returned value.
Raised(e) == [raised |-> TRUE, exc |-> e, value |-> <<>>]
Returned(v) == [raised |-> FALSE, exc |-> <<>>, value |-> v]

\* chunk_text with the loop stepping one word further than the slice is long
chunk_text_skip(t, max_words) ==
    LET words == Split(t)
    IN  IF max_words = -1
        THEN Raised(RangeZeroStep)
        ELSE LET r == Range(0, Len(words), max_words + 1)
             IN  Returned([k \in 1..Len(r) |->
                             Join(SP, Slice(words, r[k], r[k] + max_words))])

\* chunk_text with the loop running to len(words) + 1
chunk_text_extra(t, max_words) ==
    LET words == Split(t)
    IN  IF max_words = 0
        THEN Raised(RangeZeroStep)
        ELSE LET r == Range(0, Len(words) + 1, max_words)
             IN  Returned([k \in 1..Len(r) |->
                             Join(SP, Slice(words, r[k], r[k] + max_words))])

chunk_text(t, max_words) ==
    LET words == Split(t)
    IN  IF max_words = 0
        THEN Raised(RangeZeroStep)
        ELSE LET r == Range(0, Len(words), max_words)
             IN  Returned([k \in 1..Len(r) |->
                             Join(SP, Slice(words, r[k], r[k] + max_words))])

-----------------------------------------------------------------------------
(* Input texts *)

Alphabet == {32, 10, 97, 98}

RECURSIVE SeqsUpTo(_, _)
SeqsUpTo(S, n) ==
    IF n = 0 THEN {<<>>}
    ELSE LET shorter == SeqsUpTo(S, n - 1)
         IN  shorter \cup {Append(s, c) : s \in {x \in shorter : Len(x) = n - 1}, c \in S}

SmallTexts == SeqsUpTo(Alphabet, MaxLen)

\* A text of w distinct one-character words (code points 1001..1000+w), either
\* separated by single spaces or laid out with irregular whitespace.
MakeText(w, style) ==
    IF style = "single"
    THEN [k \in 1..(IF w = 0 THEN 0 ELSE 2 * w - 1) |->
             IF k % 2 = 1 THEN 1000 + (k + 1) \div 2 ELSE 32]
    ELSE [k \in 1..(1 + 3 * w) |->
             IF k = 1 THEN 10
             ELSE IF (k - 2) % 3 = 0 THEN 1001 + (k - 2) \div 3
             ELSE IF (k - 2) % 3 = 1 THEN 32 ELSE 9]

Styles == {"single", "padded"}

ChunkInputs == SmallTexts \cup {MakeText(w, st) : w \in 0..MaxWords, st \in Styles}


-----------------------------------------------------------------------------
(* The external summarizer, called at src/app.py line 66 *)

\* "A", "B", "C": summaries the model may generate
SummaryTexts == {<<65>>, <<66>>, <<67>>}

\* "out of memory": str(e) of an exception raised by the pipeline
ExcDetails == {<<111, 117, 116, 32, 111, 102, 32, 109, 101, 109, 111, 114, 121>>}

\* Python values the call may return: a list of dicts (each with or without
\* the key 'summary_text'), or a non-empty dict that is not a list.
PyList(items) == [type |-> "list", items |-> items]
PyDict == [type |-> "dict", items |-> <<>>]
WithKey(s) == [has_key |-> TRUE, summary_text |-> s]
WithoutKey == [has_key |-> FALSE, summary_text |-> <<>>]

SummarizerReturns ==
    {PyList(<<WithKey(s)>>) : s \in SummaryTexts}
        \cup {PyList(<<>>), PyList(<<WithoutKey>>), PyDict}

Outcomes == {Raised(d) : d \in ExcDetails} \cup {Returned(v) : v \in SummarizerReturns}

\* bool(v): an empty list is falsy, the non-empty dict is truthy
Truthy(v) == IF v.type = "list" THEN v.items # <<>> ELSE TRUE

\* isinstance(v, list)
IsList(v) == v.type = "list"

-----------------------------------------------------------------------------
(* summarize_text, src/app.py lines 48-72 *)

\* "No content to summarize."
NoContent ==
    <<78, 111, 32, 99, 111, 110, 116, 101, 110, 116, 32, 116, 111, 32, 115,
      117, 109, 109, 97, 114, 105, 122, 101, 46>>

\* "Error during summarization: "
ErrPrefix ==
    <<69, 114, 114, 111, 114, 32, 100, 117, 114, 105, 110, 103, 32, 115,
      117, 109, 109, 97, 114, 105, 122, 97, 116, 105, 111, 110, 58, 32>>

\* "'summary_text'": str(KeyError('summary_text'))
KeyErrorDetail ==
    <<39, 115, 117, 109, 109, 97, 114, 121, 95, 116, 101, 120, 116, 39>>

\* the word threshold of line 58 and the max_words of line 59
Threshold == 500

\* line 53 without the strip: not text
IsBlank_nostrip(t) == t = <<>>

\* line 53: not text.strip()
IsBlank(t) == Strip(t) = <<>>

\* lines 56-61 with >= in place of > at line 58
ChunksOf_ge(t) ==
    IF Len(Split(t)) >= Threshold THEN chunk_text(t, Threshold).value ELSE <<t>>

\* lines 56-61: the chunks the loop runs over
ChunksOf(t) ==
    IF Len(Split(t)) > Threshold THEN chunk_text(t, Threshold).value ELSE <<t>>

\* lines 65-70 with a handler that drops the failure (except: pass)
LoopBody_swallow(sums, o) ==
    IF o.raised
    THEN sums
    ELSE IF Truthy(o.value) /\ IsList(o.value)
         THEN IF o.value.items[1].has_key
              THEN Append(sums, o.value.items[1].summary_text)
              ELSE sums
         ELSE sums

\* lines 65-70 with summaries.insert(0, ...) in place of append
LoopBody_prepend(sums, o) ==
    IF o.raised
    THEN <<ErrPrefix \o o.exc>> \o sums
    ELSE IF Truthy(o.value) /\ IsList(o.value)
         THEN IF o.value.items[1].has_key
              THEN <<o.value.items[1].summary_text>> \o sums
              ELSE <<ErrPrefix \o KeyErrorDetail>> \o sums
         ELSE sums

\* lines 65-70: what one iteration does to summaries, given the call's outcome
LoopBody(sums, o) ==
    IF o.raised
    THEN Append(sums, ErrPrefix \o o.exc)
    ELSE IF Truthy(o.value) /\ IsList(o.value)
         THEN IF o.value.items[1].has_key
              THEN Append(sums, o.value.items[1].summary_text)
              ELSE Append(sums, ErrPrefix \o KeyErrorDetail)   \* KeyError, caught at line 69
         ELSE sums

\* lines 53-63: the blank-input return, or the set-up of the loop
summarize_begin ==
    /\ pc = "summarize"
    /\ IF IsBlank(text)
       THEN /\ overall_summary' = NoContent
            /\ pc' = "returned"
            /\ UNCHANGED <<chunks, idx, summaries>>
       ELSE /\ chunks' = ChunksOf(text)
            /\ summaries' = <<>>
            /\ idx' = 1
            /\ pc' = "loop"
            /\ UNCHANGED overall_summary
    /\ UNCHANGED <<cache, instances, summarizer, runs, product_url, clicked, response,
                   reviews_text, ui, text, calls, outcomes,
                   ct_text, ct_max_words, ct_result>>

\* line 66: the call summarizer(chunk, ...) is issued and blocks
summarizer_call ==
    /\ pc = "loop"
    /\ idx <= Len(chunks)
    /\ calls' = Append(calls, [chunk |-> chunks[idx], instance |-> summarizer])
    /\ pc' = "in_call"
    /\ UNCHANGED <<cache, instances, summarizer, runs, product_url, clicked, response,
                   reviews_text, ui, text, chunks, idx, summaries, outcomes,
                   overall_summary, ct_text, ct_max_words, ct_result>>

\* lines 66-70: the call returns or raises, and the iteration finishes
summarizer_done ==
    /\ pc = "in_call"
    /\ \E o \in Outcomes :
          /\ outcomes' = Append(outcomes, o)
          /\ summaries' = LoopBody(summaries, o)
    /\ idx' = idx + 1
    /\ pc' = "loop"
    /\ UNCHANGED <<cache, instances, summarizer, runs, product_url, clicked, response,
                   reviews_text, ui, text, chunks, calls, overall_summary,
                   ct_text, ct_max_words, ct_result>>

\* lines 71-72: the loop is over
summarize_end ==
    /\ pc = "loop"
    /\ idx > Len(chunks)
    /\ overall_summary' = Join(SP, summaries)
    /\ pc' = "returned"
    /\ UNCHANGED <<cache, instances, summarizer, runs, product_url, clicked, response,
                   reviews_text, ui, text, chunks, idx, summaries, calls, outcomes,
                   ct_text, ct_max_words, ct_result>>

-----------------------------------------------------------------------------
(* load_summarizer and fetch_reviews, src/app.py lines 6-35 *)

\* load_summarizer without the @st.cache_resource decorator: every call
\* constructs a pipeline
load_summarizer_uncached(c, insts) ==
    LET new == Len(insts) + 1
    IN  [cache |-> c, instances |-> Append(insts, new), value |-> new]

\* @st.cache_resource def load_summarizer (lines 7-9), given the cache and the
\* instances built so far: the cached instance if there is one, else a newly
\* constructed pipeline, which is stored.
load_summarizer(c, insts) ==
    IF c # <<>>
    THEN [cache |-> c, instances |-> insts, value |-> c[1]]
    ELSE LET new == Len(insts) + 1
         IN  [cache |-> <<new>>, instances |-> Append(insts, new), value |-> new]

\* "timeout": str(e) of what requests.get or raise_for_status raised
FetchExc == <<116, 105, 109, 101, 111, 117, 116>>

\* "Error fetching page: "
FetchErrPrefix ==
    <<69, 114, 114, 111, 114, 32, 102, 101, 116, 99, 104, 105, 110, 103,
      32, 112, 97, 103, 101, 58, 32>>

\* The text inside a <span data-hook="review-body">: "", " ", "a", " a b\n"
ElementTexts == {<<>>, <<32>>, <<97>>, <<32, 97, 32, 98, 10>>}

\* most review-body elements on a modelled page
MaxElems == 2

Pages == SeqsUpTo(ElementTexts, MaxElems)

\* What lines 26-27 can produce: an exception, or a page with its review elements
Responses ==
    {[ok |-> FALSE, exc |-> FetchExc, elements |-> <<>>]}
        \cup {[ok |-> TRUE, exc |-> <<>>, elements |-> p] : p \in Pages}

NoResponse == [ok |-> FALSE, exc |-> <<>>, elements |-> <<>>]

Shown(kind, body) == [kind |-> kind, body |-> body]

\* lines 25-35: the returned string and what st.error rendered
fetch_reviews(r) ==
    IF ~r.ok
    THEN [value |-> <<>>, shown |-> <<Shown("error", FetchErrPrefix \o r.exc)>>]
    ELSE LET reviews == [k \in 1..Len(r.elements) |-> Strip(r.elements[k])]
         IN  [value |-> Join(SP, reviews), shown |-> <<>>]

-----------------------------------------------------------------------------
(* The script and main, src/app.py lines 11 and 74-95 *)

\* "Please enter a valid URL."
EnterUrlMsg ==
    <<80, 108, 101, 97, 115, 101, 32, 101, 110, 116, 101, 114, 32, 97, 32,
      118, 97, 108, 105, 100, 32, 85, 82, 76, 46>>

\* "No reviews found or an error occurred."
NoReviewsMsg ==
    <<78, 111, 32, 114, 101, 118, 105, 101, 119, 115, 32, 102, 111, 117,
      110, 100, 32, 111, 114, 32, 97, 110, 32, 101, 114, 114, 111, 114, 32,
      111, 99, 99, 117, 114, 114, 101, 100, 46>>

\* "Review Summary:"
SummaryHeader ==
    <<82, 101, 118, 105, 101, 119, 32, 83, 117, 109, 109, 97, 114, 121,
      58>>

\* "SmartShop Review Summarizer"
Title ==
    <<83, 109, 97, 114, 116, 83, 104, 111, 112, 32, 82, 101, 118, 105, 101,
      119, 32, 83, 117, 109, 109, 97, 114, 105, 122, 101, 114>>

\* "A real-time, sentiment-driven review summarize
\*  r for e-commerce product pages."
Description ==
    <<65, 32, 114, 101, 97, 108, 45, 116, 105, 109, 101, 44, 32, 115, 101,
      110, 116, 105, 109, 101, 110, 116, 45, 100, 114, 105, 118, 101, 110,
      32, 114, 101, 118, 105, 101, 119, 32, 115, 117, 109, 109, 97, 114,
      105, 122, 101, 114, 32, 102, 111, 114, 32, 101, 45, 99, 111, 109,
      109, 101, 114, 99, 101, 32, 112, 114, 111, 100, 117, 99, 116, 32,
      112, 97, 103, 101, 115, 46>>

\* "" and "u": what the user may have typed into the text_input
Urls == {<<>>, <<117>>}

\* Streamlit reruns the script on a user interaction: the widgets carry the
\* user's input, the page and the script's names start afresh, the resource
\* cache is kept.
script_start ==
    /\ pc = "idle"
    /\ runs < MaxRuns
    /\ runs' = runs + 1
    /\ \E u \in Urls, c \in BOOLEAN : product_url' = u /\ clicked' = c
    /\ summarizer' = 0
    /\ response' = NoResponse
    /\ reviews_text' = <<>>
    /\ ui' = <<>>
    /\ text' = <<>> /\ chunks' = <<>> /\ idx' = 0 /\ summaries' = <<>>
    /\ calls' = <<>> /\ outcomes' = <<>> /\ overall_summary' = <<>>
    /\ pc' = "load"
    /\ UNCHANGED <<cache, instances, ct_text, ct_max_words, ct_result>>

\* line 11: summarizer = load_summarizer()
script_load ==
    /\ pc = "load"
    /\ LET r == load_summarizer(cache, instances)
       IN  /\ cache' = r.cache
           /\ instances' = r.instances
           /\ summarizer' = r.value
    /\ pc' = "main"
    /\ UNCHANGED <<runs, product_url, clicked, response, reviews_text, ui, text, chunks,
                   idx, summaries, calls, outcomes, overall_summary,
                   ct_text, ct_max_words, ct_result>>

\* line 9 raises (the model cannot be loaded): nothing is cached and the run
\* ends at line 11 with the exception rendered.
script_load_fails ==
    /\ pc = "load"
    /\ cache = <<>>
    /\ ui' = Append(ui, Shown("exception", <<>>))
    /\ pc' = "idle"
    /\ UNCHANGED <<cache, instances, summarizer, runs, product_url, clicked, response,
                   reviews_text, text, chunks, idx, summaries, calls, outcomes,
                   overall_summary, ct_text, ct_max_words, ct_result>>

\* lines 75-83: the page header, the button and the URL check
main_begin ==
    /\ pc = "main"
    /\ LET header == ui \o <<Shown("title", Title), Shown("write", Description)>>
       IN  IF ~clicked
           THEN ui' = header /\ pc' = "idle"
           ELSE IF product_url = <<>>
                THEN ui' = Append(header, Shown("error", EnterUrlMsg)) /\ pc' = "idle"
                ELSE ui' = header /\ pc' = "fetch"
    /\ UNCHANGED <<cache, instances, summarizer, runs, product_url, clicked, response,
                   reviews_text, text, chunks, idx, summaries, calls, outcomes,
                   overall_summary, ct_text, ct_max_words, ct_result>>

\* lines 84-85: reviews_text = fetch_reviews(product_url)
main_fetch ==
    /\ pc = "fetch"
    /\ \E r \in Responses :
          /\ response' = r
          /\ reviews_text' = fetch_reviews(r).value
          /\ ui' = ui \o fetch_reviews(r).shown
    /\ pc' = "fetched"
    /\ UNCHANGED <<cache, instances, summarizer, runs, product_url, clicked,
                   text, chunks, idx, summaries, calls, outcomes, overall_summary,
                   ct_text, ct_max_words, ct_result>>

\* lines 86-90 without the emptiness check of line 86
main_after_fetch_nocheck ==
    /\ pc = "fetched"
    /\ text' = reviews_text
    /\ pc' = "summarize"
    /\ UNCHANGED <<cache, instances, summarizer, runs, product_url, clicked, response,
                   reviews_text, ui, chunks, idx, summaries, calls, outcomes,
                   overall_summary, ct_text, ct_max_words, ct_result>>

\* lines 86-90: the emptiness check, then the call summarize_text(reviews_text)
main_after_fetch ==
    /\ pc = "fetched"
    /\ IF reviews_text = <<>>
       THEN /\ ui' = Append(ui, Shown("error", NoReviewsMsg))
            /\ pc' = "idle"
            /\ UNCHANGED text
       ELSE /\ text' = reviews_text
            /\ pc' = "summarize"
            /\ UNCHANGED ui
    /\ UNCHANGED <<cache, instances, summarizer, runs, product_url, clicked, response,
                   reviews_text, chunks, idx, summaries, calls, outcomes,
                   overall_summary, ct_text, ct_max_words, ct_result>>

\* lines 90-92: summarize_text has returned; the summary is rendered
main_display ==
    /\ pc = "returned"
    /\ ui' = ui \o <<Shown("subheader", SummaryHeader), Shown("write", overall_summary)>>
    /\ pc' = "idle"
    /\ UNCHANGED <<cache, instances, summarizer, runs, product_url, clicked, response,
                   reviews_text, text, chunks, idx, summaries, calls, outcomes,
                   overall_summary, ct_text, ct_max_words, ct_result>>

-----------------------------------------------------------------------------
(* Specifications *)

NoProcess ==
    /\ runs = 0 /\ product_url = <<>> /\ clicked = FALSE
    /\ response = NoResponse /\ reviews_text = <<>> /\ ui = <<>>

NoRequest ==
    /\ text = <<>> /\ chunks = <<>> /\ idx = 0 /\ summaries = <<>>
    /\ calls = <<>> /\ outcomes = <<>> /\ overall_summary = <<>>

NoChunkCall ==
    /\ ct_text = <<>> /\ ct_max_words = Threshold /\ ct_result = Returned(<<>>)

\* The application: a fresh process, then script runs one after another.
Init ==
    /\ cache = <<>> /\ instances = <<>> /\ summarizer = 0
    /\ pc = "idle"
    /\ NoProcess /\ NoRequest /\ NoChunkCall

Next ==
    \/ script_start
    \/ script_load
    \/ script_load_fails
    \/ main_begin
    \/ main_fetch
    \/ main_after_fetch
    \/ summarize_begin
    \/ summarizer_call
    \/ summarizer_done
    \/ summarize_end
    \/ main_display

Spec == Init /\ [][Next]_vars

\* summarize_text alone, called on each input text with the pipeline loaded.
BigTexts ==
    {MakeText(w, st) : w \in {499, 500, 501}, st \in Styles}
        \cup {MakeText(1000, "single"), MakeText(1200, "single"), MakeText(1200, "padded")}

SummarizeInputs == SmallTexts \cup BigTexts

InitSummarize ==
    /\ cache = <<1>> /\ instances = <<1>> /\ summarizer = 1
    /\ pc = "summarize"
    /\ NoProcess /\ NoChunkCall
    /\ text \in SummarizeInputs
    /\ chunks = <<>> /\ idx = 0 /\ summaries = <<>>
    /\ calls = <<>> /\ outcomes = <<>> /\ overall_summary = <<>>

NextSummarize ==
    \/ summarize_begin
    \/ summarizer_call
    \/ summarizer_done
    \/ summarize_end

SpecSummarize == InitSummarize /\ [][NextSummarize]_vars

\* chunk_text alone, called on each input text with each max_words.
chunk_text_call ==
    /\ pc = "chunk_text"
    /\ ct_result' = chunk_text(ct_text, ct_max_words)
    /\ pc' = "chunk_done"
    /\ UNCHANGED <<cache, instances, summarizer, runs, product_url, clicked, response,
                   reviews_text, ui, text, chunks, idx, summaries, calls, outcomes,
                   overall_summary, ct_text, ct_max_words>>

InitChunk ==
    /\ cache = <<>> /\ instances = <<>> /\ summarizer = 0
    /\ pc = "chunk_text"
    /\ NoProcess /\ NoRequest
    /\ ct_text \in ChunkInputs
    /\ ct_max_words \in (-MaxM)..MaxM
    /\ ct_result = Returned(<<>>)

NextChunk == chunk_text_call

SpecChunk == InitChunk /\ [][NextChunk]_vars

-----------------------------------------------------------------------------
(* Properties of chunk_text, checked under SpecChunk *)

\* the word lists of the chunks, concatenated in chunk order
RECURSIVE WordsOfChunks(_)
WordsOfChunks(cs) ==
    IF cs = <<>> THEN <<>> ELSE Split(cs[1]) \o WordsOfChunks(Tail(cs))

ChunkCallOver == pc = "chunk_done"

\* C2: for every text and every positive max_words, chunk_text returns, the
\* words of its chunks taken in chunk order are exactly text.split(), and the
\* chunks joined by single spaces are the whitespace-normalized text.
ChunkRoundTrip ==
    (ChunkCallOver /\ ct_max_words > 0) =>
        /\ ~ct_result.raised
        /\ WordsOfChunks(ct_result.value) = Split(ct_text)
        /\ Join(SP, ct_result.value) = Join(SP, Split(ct_text))

\* a text with irregular whitespace was cut into several chunks
ChunkRoundTripWitness ==
    /\ ChunkCallOver /\ ct_max_words > 1
    /\ Len(ct_result.value) >= 2
    /\ Join(SP, Split(ct_text)) # ct_text
    /\ \E i, j \in 1..Len(Split(ct_text)) : Split(ct_text)[i] # Split(ct_text)[j]

\* C3: for a text of W words and a positive max_words M, chunk_text returns
\* ceil(W / M) chunks, each but the last of exactly M words and the last of
\* 1..M words; W = 0 gives no chunk, and W a multiple of M no short chunk.
ChunkCountAndSizes ==
    (ChunkCallOver /\ ct_max_words > 0) =>
        LET W == Len(Split(ct_text))
            M == ct_max_words
            cs == ct_result.value
            n == Len(cs)
        IN  /\ ~ct_result.raised
            /\ n = (IF W % M = 0 THEN W \div M ELSE W \div M + 1)
            /\ \A k \in 1..(n - 1) : Len(Split(cs[k])) = M
            /\ n > 0 => Len(Split(cs[n])) \in 1..M
            /\ W = 0 => cs = <<>>
            /\ W % M = 0 => \A k \in 1..n : Len(Split(cs[k])) = M

\* a word count that is an exact multiple of max_words gave several full chunks
ChunkCountWitness ==
    /\ ChunkCallOver /\ ct_max_words > 1
    /\ Len(Split(ct_text)) = 2 * ct_max_words
    /\ Len(ct_result.value) = 2

\* C4 as claimed: every max_words <= 0 is rejected with an error.
ChunkRejectsNonPositive ==
    (ChunkCallOver /\ ct_max_words <= 0) => ct_result.raised

-----------------------------------------------------------------------------
(* Properties of summarize_text, checked under SpecSummarize *)

\* the text is empty or consists only of whitespace
AllWhitespace(t) == \A i \in 1..Len(t) : t[i] \in Whitespace

SummarizeOver == pc = "returned"

\* the call returned a non-empty list whose first element has 'summary_text'
GaveSummary(o) ==
    /\ ~o.raised
    /\ o.value.type = "list"
    /\ o.value.items # <<>>
    /\ o.value.items[1].has_key

\* C1: when summarize_text returns for a non-blank text of N chunks on which
\* every summarizer call either raised or returned a summary_text, the
\* summarizer was called on each of the N chunks, whichever calls raised, and
\* the result is N segments joined by single spaces: "Error during
\* summarization: <detail>" at each failed position and the returned
\* summary_text at every other.
FailureIsolation ==
    (/\ SummarizeOver /\ ~AllWhitespace(text)
     /\ \A k \in 1..Len(outcomes) : outcomes[k].raised \/ GaveSummary(outcomes[k])) =>
        LET N == Len(chunks)
        IN  /\ Len(calls) = N /\ Len(outcomes) = N
            /\ \A k \in 1..N : calls[k].chunk = chunks[k]
            /\ Len(summaries) = N
            /\ overall_summary =
                 Join(SP, [k \in 1..N |->
                             IF outcomes[k].raised
                             THEN ErrPrefix \o outcomes[k].exc
                             ELSE outcomes[k].value.items[1].summary_text])

\* of three chunks the middle one failed and the other two were summarized
FailureIsolationWitness ==
    /\ SummarizeOver /\ Len(chunks) = 3 /\ Len(outcomes) = 3
    /\ GaveSummary(outcomes[1]) /\ outcomes[2].raised /\ GaveSummary(outcomes[3])

\* C5: for an empty or whitespace-only text the summarizer is never invoked
\* and summarize_text returns "No content to summarize." from line 54.
BlankShortCircuit ==
    AllWhitespace(text) =>
        /\ calls = <<>> /\ outcomes = <<>>
        /\ pc \in {"summarize", "returned"}
        /\ SummarizeOver => overall_summary = NoContent

\* a text of whitespace only, not the empty string, got the sentinel
BlankShortCircuitWitness ==
    /\ SummarizeOver /\ text # <<>> /\ AllWhitespace(text)
    /\ overall_summary = NoContent

\* what a finished call contributes to the result: the error marker, the
\* summary_text, or nothing when the value returned is empty or not a list
RECURSIVE ResultsOf(_)
ResultsOf(os) ==
    IF os = <<>> THEN <<>>
    ELSE LET o == os[1]
             r == IF o.raised THEN <<ErrPrefix \o o.exc>>
                  ELSE IF o.value.type # "list" \/ o.value.items = <<>> THEN <<>>
                  ELSE IF o.value.items[1].has_key
                       THEN <<o.value.items[1].summary_text>>
                       ELSE <<ErrPrefix \o KeyErrorDetail>>
         IN  r \o ResultsOf(Tail(os))

\* C6: the calls are issued one at a time and in chunk order (call k is for
\* chunk k and is issued only when the k-1 calls before it have ended), there
\* is one call per chunk at the return, and the returned string is the calls'
\* results joined by single spaces in call order. The 1200-word text is cut
\* into 500, 500 and 200 words, and summaries "A", "B", "C" give "A B C".
OrderedProcessing ==
    /\ Len(calls) = Len(outcomes) + (IF pc = "in_call" THEN 1 ELSE 0)
    /\ \A k \in 1..Len(calls) : calls[k].chunk = chunks[k]
    /\ (SummarizeOver /\ ~AllWhitespace(text)) =>
          /\ Len(calls) = Len(chunks)
          /\ overall_summary = Join(SP, ResultsOf(outcomes))
    /\ (SummarizeOver /\ text = MakeText(1200, "single")) =>
          /\ Len(calls) = 3
          /\ Len(Split(calls[1].chunk)) = 500
          /\ Len(Split(calls[2].chunk)) = 500
          /\ Len(Split(calls[3].chunk)) = 200
          /\ (outcomes = <<Returned(PyList(<<WithKey(<<65>>)>>)),
                           Returned(PyList(<<WithKey(<<66>>)>>)),
                           Returned(PyList(<<WithKey(<<67>>)>>))>>)
                => overall_summary = <<65, 32, 66, 32, 67>>

\* the 1200-word text was summarized as "A B C"
OrderedProcessingWitness ==
    /\ SummarizeOver /\ text = MakeText(1200, "single")
    /\ Len(calls) = 3
    /\ overall_summary = <<65, 32, 66, 32, 67>>

\* C7: a non-blank text of at most 500 words is handed to the summarizer
\* whole and unchanged, in a single call; a text of more than 500 words is
\* handed over as chunk_text(text, 500): ceil(W / 500) >= 2 calls, none of
\* more than 500 words.
ThresholdRule ==
    (SummarizeOver /\ ~AllWhitespace(text)) =>
        LET W == Len(Split(text))
        IN  /\ W <= 500 => Len(calls) = 1 /\ calls[1].chunk = text
            /\ W > 500 =>
                  /\ chunks = chunk_text(text, 500).value
                  /\ Len(calls) = (IF W % 500 = 0 THEN W \div 500 ELSE W \div 500 + 1)
                  /\ Len(calls) >= 2
                  /\ \A k \in 1..Len(calls) :
                        /\ calls[k].chunk = chunks[k]
                        /\ Len(Split(calls[k].chunk)) <= 500

\* a text of exactly 500 words with irregular whitespace went through in one call
ThresholdRuleWitness ==
    /\ SummarizeOver /\ text = MakeText(500, "padded")
    /\ Len(calls) = 1 /\ calls[1].chunk # Join(SP, Split(text))

\* C9 as claimed: whatever each call produced, the loop appended exactly one
\* string per chunk, so summaries is as long as chunks when the loop ends.
OneSummaryPerChunk ==
    (SummarizeOver /\ ~AllWhitespace(text)) => Len(summaries) = Len(chunks)

-----------------------------------------------------------------------------
(* Properties of the application, checked under Spec *)

HasShown(kind) == \E i \in 1..Len(ui) : ui[i].kind = kind

\* summarize_text is running or has just returned to main
SummarizeActive == pc \in {"summarize", "loop", "in_call", "returned"}

\* fetch_reviews has returned in this run: main got past line 83 and line 85
Fetched == clicked /\ product_url # <<>> /\ HasShown("title") /\ pc # "fetch"

\* the button was pressed with an empty URL and main has dealt with it
EmptyUrl == clicked /\ product_url = <<>> /\ pc = "idle" /\ HasShown("title")

\* every review-body element of the page has blank text (or there is none)
NoReviewText == response.ok /\ \A k \in 1..Len(response.elements) :
                                    AllWhitespace(response.elements[k])

\* what C8 and its amendment promise of a run whose acquisition failed
Aborted ==
    /\ ~SummarizeActive
    /\ calls = <<>> /\ overall_summary = <<>>
    /\ ~HasShown("subheader")
    /\ \A i \in 1..Len(ui) : ui[i].kind = "write" => ui[i].body = Description
    /\ pc = "idle" => HasShown("error")

\* what both promise of every run: summarize_text runs only on the non-empty
\* string fetch_reviews returned
OnlyAfterFetch ==
    SummarizeActive =>
        /\ Fetched /\ response.ok
        /\ reviews_text # <<>> /\ text = reviews_text

\* C8 as claimed: an empty URL, a failed request or a page without review
\* text gives the empty string, an error message, no call of summarize_text
\* and no summary.
AcquisitionFailureAborts ==
    /\ OnlyAfterFetch
    /\ EmptyUrl => Aborted
    /\ (Fetched /\ (~response.ok \/ NoReviewText)) => (reviews_text = <<>> /\ Aborted)

\* C8 as amended: the same, where "no review text" is a page with no
\* review-body element or with a single one whose text is blank; two or more
\* elements that are all blank give a string of spaces, which summarize_text
\* answers with its sentinel without invoking the summarizer.
AcquisitionFailureAbortsAmended ==
    /\ OnlyAfterFetch
    /\ EmptyUrl => Aborted
    /\ (Fetched /\ (~response.ok \/ (NoReviewText /\ Len(response.elements) <= 1)))
          => (reviews_text = <<>> /\ Aborted)
    /\ (Fetched /\ NoReviewText /\ Len(response.elements) >= 2) =>
          /\ reviews_text # <<>> /\ AllWhitespace(reviews_text)
          /\ calls = <<>>
          /\ pc = "idle" => (~HasShown("error") /\ ui[Len(ui)] = Shown("write", NoContent))

\* a page whose only review element is blank ended the run with the error
AcquisitionFailureWitness ==
    /\ Fetched /\ pc = "idle"
    /\ NoReviewText /\ Len(response.elements) = 1
    /\ ui[Len(ui)] = Shown("error", NoReviewsMsg)

\* C10: in one process at most one pipeline is ever constructed, the cache
\* holds it from then on, and every run's global summarizer and every
\* summarizer call of every request use that instance.
InitializeOnce ==
    /\ Len(instances) <= 1
    /\ cache = instances
    /\ summarizer # 0 => (instances # <<>> /\ summarizer = instances[1])
    /\ \A k \in 1..Len(calls) : instances # <<>> /\ calls[k].instance = instances[1]

\* a later run's request is calling the pipeline the first run constructed
InitializeOnceWitness ==
    /\ runs >= 2 /\ pc = "in_call"
    /\ Len(instances) = 1 /\ calls[1].instance = instances[1]

=============================================================================
